---- MODULE Spec2Model ----
(***************************************************************************)
(* A model of the PIR cryptographic context (src/pir/cpp/context.cpp) and  *)
(* of the string codec exercised by src/pir/cpp/string_encoder_test.cpp.   *)
(*                                                                         *)
(* The homomorphic-encryption backend (Microsoft SEAL, BFV scheme) is      *)
(* modelled at the level of the plaintext algebra: a ciphertext is the     *)
(* plaintext polynomial it decrypts to, the key it was encrypted under and *)
(* the identifier of the parameters it lives at.  Noise is not modelled.   *)
(* The ring degree and the plaintext modulus are scaled down (4096 and a   *)
(* 20-bit prime in the source) so that the batching transform can be       *)
(* computed exactly.                                                       *)
(***************************************************************************)
EXTENDS Integers, Sequences, FiniteSets, TLC

\* ------------------------------------------------------------- bounds
\* log2 of the ring degree of the Context's parameters (12 in the source).
LogDegree == 1
\* Bit length of the batching plaintext modulus (20 in the source).
PlainModulusBits == 5

\* ---------------------------------------------------------- arithmetic
RECURSIVE Pow2(_)
Pow2(n) == IF n = 0 THEN 1 ELSE 2 * Pow2(n - 1)

IsPrime(n) == n >= 2 /\ \A d \in 2..(n - 1) : d * d > n \/ n % d # 0

RECURSIVE PowMod(_, _, _)
PowMod(a, e, m) == IF e = 0 THEN 1 % m ELSE (a * PowMod(a, e - 1, m)) % m

InvMod(a, m) == CHOOSE x \in 1..(m - 1) : (a * x) % m = 1

RECURSIVE SumTo(_, _)
\* f[1] + ... + f[n]
SumTo(f, n) == IF n = 0 THEN 0 ELSE f[n] + SumTo(f, n - 1)

\* seal::PlainModulus::Batching(degree, bits): the largest prime of `bits`
\* bits congruent to 1 modulo 2 * degree.
PlainModulusBatching(degree, bits) ==
    LET S == {p \in Pow2(bits - 1)..(Pow2(bits) - 1) :
                 p % (2 * degree) = 1 /\ IsPrime(p)}
    IN CHOOSE p \in S : \A q \in S : q <= p

\* ------------------------------------------------- scheme parameters
RingDegree == Pow2(LogDegree)
PlainModulus == PlainModulusBatching(RingDegree, PlainModulusBits)

\* seal::CoeffModulus::BFVDefault(4096): three primes of 36, 36 and 37 bits.
\* The primes are kept as names; only their identity and bit length matter.
BFVDefault == <<"q36a", "q36b", "q37">>

CoeffBitCount(q) == IF q = "q37" THEN 37 ELSE 36

\* PIRContext::generateEncryptionParams
generateEncryptionParams ==
    [scheme |-> "BFV", poly_modulus_degree |-> RingDegree,
     plain_modulus |-> PlainModulus, coeff_modulus |-> BFVDefault]

\* Parameter sets a peer may send: they load, and differ from the default in
\*   the key-switching (last) prime only;
\*   the plaintext modulus (another batching prime, one bit longer);
\*   a plaintext modulus that does not support batching;
\*   a coefficient modulus too long for the ring degree's security bound.
OtherSpecialPrime ==
    [generateEncryptionParams EXCEPT !.coeff_modulus = <<"q36a", "q36b", "q36c">>]
OtherPlainModulus ==
    [generateEncryptionParams EXCEPT
        !.plain_modulus = PlainModulusBatching(RingDegree, PlainModulusBits + 1)]
NoBatching ==
    [generateEncryptionParams EXCEPT !.plain_modulus = 3]
TooManyPrimes ==
    [generateEncryptionParams EXCEPT
        !.coeff_modulus = <<"q36a", "q36b", "q36c", "q37">>]

PeerParams == {OtherSpecialPrime, OtherPlainModulus, NoBatching, TooManyPrimes}

\* EncryptionParameters::parms_id: a hash of all four members.
ParmsId(p) ==
    <<p.scheme, p.poly_modulus_degree, p.coeff_modulus, p.plain_modulus>>

\* SEALContext validation (parameters_set): the total coefficient-modulus bit
\* count must not exceed the 128-bit security bound of the ring degree
\* (109 bits at degree 4096).
ParametersSet(p) ==
    /\ p.scheme = "BFV"
    /\ Len(p.coeff_modulus) >= 1
    /\ SumTo([i \in 1..Len(p.coeff_modulus) |-> CoeffBitCount(p.coeff_modulus[i])],
             Len(p.coeff_modulus)) <= 36 + 36 + 37
    /\ p.plain_modulus >= 2

\* BatchEncoder's requirement (qualifiers().using_batching).
UsingBatching(p) ==
    IsPrime(p.plain_modulus) /\ p.plain_modulus % (2 * p.poly_modulus_degree) = 1

\* The modulus-switching chain below the key level: the parameters with the
\* last k primes dropped.  Fresh ciphertexts live at the first data level.
DropLast(s) == SubSeq(s, 1, Len(s) - 1)

FirstParms(p) ==
    IF Len(p.coeff_modulus) > 1
    THEN [p EXCEPT !.coeff_modulus = DropLast(p.coeff_modulus)]
    ELSE p

DataLevelIds(p) ==
    LET n == Len(p.coeff_modulus)
        top == IF n > 1 THEN n - 1 ELSE n
    IN {ParmsId([p EXCEPT !.coeff_modulus = SubSeq(p.coeff_modulus, 1, k)]) :
           k \in 1..top}

\* ------------------------------------------------------ BatchEncoder
Zeros(n) == [i \in 1..n |-> 0]

ZeroPad(v, n) == [i \in 1..n |-> IF i <= Len(v) THEN v[i] ELSE 0]

\* util::try_minimal_primitive_root(2n, t): the least psi with psi^n = -1.
MinimalPrimitiveRoot(n, t) ==
    LET S == {x \in 2..(t - 1) : PowMod(x, n, t) = t - 1}
    IN CHOOSE x \in S : \A y \in S : x <= y

\* BatchEncoder::populate_matrix_reps_index_map: slot i of the first row is
\* the evaluation at psi^(3^i), slot i of the second row at psi^(-(3^i)).
SlotExponent(i, n) ==
    LET row == n \div 2
        m == 2 * n
    IN IF i <= row THEN PowMod(3, i - 1, m)
       ELSE m - PowMod(3, i - 1 - row, m)

\* The plaintext moduli of the parameter sets that support batching.
BatchingModuli ==
    {PlainModulus, PlainModulusBatching(RingDegree, PlainModulusBits + 1)}

\* SEALContext's precomputed plain_ntt_tables, per plaintext modulus: the
\* powers of the slot roots, their inverses, and the inverse of the degree.
NTTTables ==
    [t \in BatchingModuli |->
       LET n == RingDegree
           psi == MinimalPrimitiveRoot(n, t)
           psiInv == InvMod(psi, t)
       IN [root |-> [i \in 1..n |-> [j \in 1..n |->
                        PowMod(psi, SlotExponent(i, n) * (j - 1), t)]],
           inv_root |-> [i \in 1..n |-> [j \in 1..n |->
                        PowMod(psiInv, SlotExponent(i, n) * (j - 1), t)]],
           inv_degree |-> InvMod(n % t, t)]]

\* BatchEncode without the final scaling by the inverse of the degree.
BatchEncode_Unscaled(p, v) ==
    LET n == p.poly_modulus_degree
        t == p.plain_modulus
        tables == NTTTables[t]
        slots == ZeroPad(v, n)
    IN [j \in 1..n |->
          SumTo([i \in 1..n |-> (slots[i] * tables.inv_root[i][j]) % t], n) % t]

\* BatchEncoder::encode: the values go to their slots, the remaining slots
\* are zeroed, and the inverse negacyclic NTT gives the n coefficients.
BatchEncode(p, v) ==
    LET n == p.poly_modulus_degree
        t == p.plain_modulus
        tables == NTTTables[t]
        slots == ZeroPad(v, n)
    IN [j \in 1..n |->
          (tables.inv_degree *
             (SumTo([i \in 1..n |-> (slots[i] * tables.inv_root[i][j]) % t], n) % t)) % t]

\* BatchDecode reading the inverse tables instead of the forward ones.
BatchDecode_InverseTables(p, plain) ==
    LET n == p.poly_modulus_degree
        t == p.plain_modulus
        tables == NTTTables[t]
        coeffs == ZeroPad(plain, n)
    IN [i \in 1..n |->
          SumTo([j \in 1..n |-> (coeffs[j] * tables.inv_root[i][j]) % t], n) % t]

\* BatchEncoder::decode: the coefficients (zero-extended to n) go through the
\* forward NTT; the destination is resized to all n slots.
BatchDecode(p, plain) ==
    LET n == p.poly_modulus_degree
        t == p.plain_modulus
        tables == NTTTables[t]
        coeffs == ZeroPad(plain, n)
    IN [i \in 1..n |->
          SumTo([j \in 1..n |-> (coeffs[j] * tables.root[i][j]) % t], n) % t]

\* is_valid_for(plain, context) for a plaintext not in NTT form.
PlainValidFor(plain, p) ==
    /\ Len(plain) <= p.poly_modulus_degree
    /\ \A j \in 1..Len(plain) : plain[j] < p.plain_modulus

\* Plaintext trimmed to its significant coefficients, never below one
\* (Decryptor::bfv_decrypt resizes its destination this way).
RECURSIVE Significant(_)
Significant(plain) ==
    IF Len(plain) > 1 /\ plain[Len(plain)] = 0
    THEN Significant(DropLast(plain))
    ELSE plain

\* ----------------------------------------------------------- results
Ok(v) == [kind |-> "ok", val |-> v]
\* private_join_and_compute::InvalidArgumentError(e.what())
InvalidArgumentError(msg) == [kind |-> "InvalidArgument", msg |-> msg]
\* An exception that leaves the operation uncaught.
Uncaught(msg) == [kind |-> "uncaught", msg |-> msg]

BadAlloc == "std::bad_alloc"

\* What a SEAL loader throws when its stream is in a failed state.
StreamError == "I/O error"

\* The longest std::string that needs no allocation.
SmallStringCapacity == 15

\* catch (const std::exception& e) { return InvalidArgumentError(e.what()); }
\* The handler is outside the try block: it copies the message into a
\* std::string, which allocates when the message is longer than the small
\* string buffer; std::bad_alloc thrown there leaves the function.
Caught(msg, oom) ==
    IF oom = "what" /\ Len(msg) > SmallStringCapacity
    THEN Uncaught(BadAlloc)
    ELSE InvalidArgumentError(msg)

\* return x.status(): the copy of a failed stage's status copies its message.
Returned(status, oom) ==
    IF /\ oom = "status"
       /\ status.kind = "InvalidArgument"
       /\ Len(status.msg) > SmallStringCapacity
    THEN Uncaught(BadAlloc)
    ELSE status
Step(stage, r) == [stage |-> stage, res |-> r]

\* ------------------------------------------------------ serialization
\* EncryptionParameters::save / Ciphertext::save: a header followed by the
\* members.
SealBlob(layout, body) == [magic |-> "SEAL", layout |-> layout, body |-> body]
Junk == [magic |-> "junk", layout |-> "none", body |-> <<>>]

\* Every function below takes `oom`, the place (if any) where an allocation
\* fails during the call.  std::bad_alloc thrown inside a try block comes
\* back as InvalidArgumentError(e.what()); thrown at a statement outside the
\* try blocks it leaves the function uncaught.

\* serializeParams returning the stream before the coefficient modulus is
\* written.
serializeParams_Partial(parms, oom) ==
    IF oom = "save" THEN Caught(BadAlloc, oom)
    ELSE IF oom = "str" THEN Uncaught(BadAlloc)
    ELSE Ok(SealBlob("parms", [parms EXCEPT !.coeff_modulus = <<>>]))

\* serializeParams: parms.save(stream) is inside the try block, the copy
\* `return stream.str()` is after it.
serializeParams(parms, oom) ==
    IF oom = "save" THEN Caught(BadAlloc, oom)
    ELSE IF oom = "str" THEN Uncaught(BadAlloc)
    ELSE Ok(SealBlob("parms", parms))

\* deserializeParams: `seal::EncryptionParameters parms` is constructed before
\* the try block.  `stream << input` does not throw: the stream swallows a
\* std::bad_alloc of its buffer and sets badbit, and the load that follows
\* fails on the bad stream with the loader's message, whatever the bytes are.
\* EncryptionParameters::load, inside the try block, throws on a bad header
\* or members that are not a parameter set.
deserializeParams(input, oom) ==
    IF oom = "EncryptionParameters" THEN Uncaught(BadAlloc)
    ELSE IF oom = "stream" THEN Caught(StreamError, oom)
    ELSE IF oom = "load" THEN Caught(BadAlloc, oom)
    ELSE IF input.magic = "SEAL" /\ input.layout = "parms"
    THEN Ok(input.body)
    ELSE Caught("loaded parameters are invalid", oom)

\* -------------------------------------------------------- operations
\* Encrypt and Decrypt return their result and the stages they executed.

\* PIRContext::Encode
Encode(c, in, oom) ==
    IF oom = "Encode" THEN Caught(BadAlloc, oom)
    ELSE IF Len(in) > c.parms.poly_modulus_degree
    THEN Caught("values_matrix size is too large", oom)
    ELSE Ok(BatchEncode(c.parms, in))

\* PIRContext::Decode
Decode(c, in, oom) ==
    IF oom = "Decode" THEN Caught(BadAlloc, oom)
    ELSE IF ~PlainValidFor(in, c.parms)
    THEN Caught("plain is not valid for encryption parameters", oom)
    ELSE Ok(BatchDecode(c.parms, in))

\* PIRContext::Serialize: ciphertext.save(stream) is inside the try block,
\* the copy `return stream.str()` is after it.
Serialize(ciphertext, oom) ==
    IF oom = "Serialize" THEN Caught(BadAlloc, oom)
    ELSE IF oom = "str" THEN Uncaught(BadAlloc)
    ELSE Ok(SealBlob("ciphertext", ciphertext))

\* Ciphertext::load(context, stream): the loaded data must be valid for the
\* context, that is its parms_id must name a data level of the context.
CiphertextValidFor(ct, p) == ct.parms_id \in DataLevelIds(p)

\* PIRContext::Deserialize: `seal::Ciphertext ciphertext(context_)` is
\* constructed before the try block; `stream << in` and Ciphertext::load run
\* inside it, and a std::bad_alloc swallowed by `stream << in` makes the load
\* fail on the bad stream with the loader's message, whatever the bytes are.
Deserialize(c, in, oom) ==
    IF oom = "Ciphertext" THEN Uncaught(BadAlloc)
    ELSE IF oom = "stream" THEN Caught(StreamError, oom)
    ELSE IF oom = "Deserialize" THEN Caught(BadAlloc, oom)
    ELSE IF ~(in.magic = "SEAL" /\ in.layout = "ciphertext")
    THEN Caught("loaded ciphertext data is invalid", oom)
    ELSE IF ~CiphertextValidFor(in.body, c.parms)
    THEN Caught("ciphertext data is invalid", oom)
    ELSE Ok(in.body)

\* Encryptor::encrypt under the context's public key.
SealEncrypt(c, plain) ==
    [parms_id |-> ParmsId(FirstParms(c.parms)), key |-> c.key, poly |-> plain]

\* Decryptor::decrypt under the context's secret key: the plaintext of a
\* ciphertext of this key pair, and an unrelated polynomial `noise` otherwise.
SealDecrypt(c, ct, noise) ==
    Significant(IF ct.key = c.key THEN ct.poly ELSE noise)

\* Encrypt going on to the encryption after a failed Encode.
Encrypt_NoShortCircuit(c, in, oom) ==
    LET plaintext == Encode(c, in, oom)
        ciphertext == SealEncrypt(c, IF plaintext.kind = "ok" THEN plaintext.val
                                     ELSE Zeros(c.parms.poly_modulus_degree))
        out == Serialize(ciphertext, oom)
    IN IF oom = "Ciphertext"
       THEN [res |-> Uncaught(BadAlloc), log |-> <<>>]
       ELSE [res |-> out,
             log |-> <<Step("Encode", plaintext), Step("encrypt", Ok(ciphertext)),
                       Step("Serialize", out)>>]

\* PIRContext::Encrypt: `seal::Ciphertext ciphertext(context_)` is constructed
\* first, outside every try block and before any stage runs.
Encrypt(c, in, oom) ==
    LET plaintext == Encode(c, in, oom)
    IN IF oom = "Ciphertext"
       THEN [res |-> Uncaught(BadAlloc), log |-> <<>>]
       ELSE IF plaintext.kind # "ok"
       THEN [res |-> Returned(plaintext, oom),
             log |-> <<Step("Encode", plaintext)>>]
       ELSE IF oom = "encrypt"
       THEN [res |-> Caught(BadAlloc, oom),
             log |-> <<Step("Encode", plaintext),
                       Step("encrypt", Caught(BadAlloc, oom))>>]
       ELSE LET ciphertext == SealEncrypt(c, plaintext.val)
                out == Serialize(ciphertext, oom)
            IN [res |-> out,
                log |-> <<Step("Encode", plaintext),
                          Step("encrypt", Ok(ciphertext)),
                          Step("Serialize", out)>>]

\* PIRContext::Decrypt
Decrypt(c, in, oom, noise) ==
    LET ciphertext == Deserialize(c, in, oom)
    IN IF ciphertext.kind # "ok"
       THEN [res |-> Returned(ciphertext, oom),
             log |-> <<Step("Deserialize", ciphertext)>>]
       ELSE IF oom = "decrypt"
       THEN [res |-> Caught(BadAlloc, oom),
             log |-> <<Step("Deserialize", ciphertext),
                       Step("decrypt", Caught(BadAlloc, oom))>>]
       ELSE LET plaintext == SealDecrypt(c, ciphertext.val, noise)
                out == Decode(c, plaintext, oom)
            IN [res |-> out,
                log |-> <<Step("Deserialize", ciphertext),
                          Step("decrypt", Ok(plaintext)),
                          Step("Decode", out)>>]

\* PIRContext::PIRContext: the constructor has no try block, so what the
\* backend throws while the members are built leaves it.
\*   any allocation of the members (SEALContext::Create, KeyGenerator,
\*   std::make_shared) may throw std::bad_alloc;
\*   KeyGenerator(context_) throws when the parameters are not set correctly;
\*   BatchEncoder(context_) throws when they do not support batching.
PIRContext(parms, db_size, key, oom) ==
    IF oom = "PIRContext" THEN Uncaught(BadAlloc)
    ELSE IF ~ParametersSet(parms)
    THEN Uncaught("encryption parameters are not set correctly")
    ELSE IF ~UsingBatching(parms)
    THEN Uncaught("encryption parameters are not valid for batching")
    ELSE Ok([live |-> TRUE, parms |-> parms, key |-> key,
             database_size |-> db_size])

\* PIRContext::Create: no statement of it is inside a try block.
Create(db_size, key, oom) ==
    PIRContext(generateEncryptionParams, db_size, key, oom)

\* PIRContext::CreateFromParams
CreateFromParams(parmsStr, db_size, key, oom) ==
    LET params == deserializeParams(parmsStr, oom)
    IN IF params.kind # "ok" THEN Returned(params, oom)
       ELSE PIRContext(params.val, db_size, key, oom)

\* PIRContext::SerializeParams
SerializeParams(c, oom) == serializeParams(c.parms, oom)

\* ------------------------------------------------------ string codec
\* The codec under test is built over parameters of its own
\* (GenerateEncryptionParams(POLY_MODULUS_DEGREE) in the test fixture).
POLY_MODULUS_DEGREE == 4096
\* Payload bits per coefficient and bits per byte.
BitsPerCoeff == 19
ByteBits == 8
\* Ring degree of the codec's parameters in the model.
CodecDegree == 2
\* seal::PlainModulus::Batching(4096, 20), a 20-bit prime.
CodecPlainModulus == 1 + 8192 * 126

PowersOfTwo == [i \in 0..BitsPerCoeff |-> Pow2(i)]

\* NumCoeff rounding down.
NumCoeff_Floor(len) == (len * ByteBits) \div BitsPerCoeff

\* NumCoeff over the modulus' full bit length instead of the payload width.
NumCoeff_FullWidth(len) == (len * ByteBits + BitsPerCoeff) \div (BitsPerCoeff + 1)

\* Coefficients a string of `len` bytes needs: ceil(len * 8 / 19).
NumCoeff(len) == (len * ByteBits + BitsPerCoeff - 1) \div BitsPerCoeff

\* Bit i (from 1, most significant bit of the first byte first) of a byte
\* string, zero past its end.
StringBit(value, i) ==
    LET k == ((i - 1) \div ByteBits) + 1
        r == (i - 1) % ByteBits
    IN IF k > Len(value) THEN 0
       ELSE (value[k] \div PowersOfTwo[ByteBits - 1 - r]) % 2

\* Bit i of the concatenated coefficients, BitsPerCoeff bits each.
CoeffBit(plain, i) ==
    LET k == ((i - 1) \div BitsPerCoeff) + 1
        r == (i - 1) % BitsPerCoeff
    IN IF k > Len(plain) THEN 0
       ELSE (plain[k] \div PowersOfTwo[BitsPerCoeff - 1 - r]) % 2

\* StringEncoder::encode: rejects a string that needs more coefficients than
\* the ring degree, else packs its bits, BitsPerCoeff per coefficient.
StringEncode(value, degree) ==
    LET n == NumCoeff(Len(value))
    IN IF n > degree
       THEN InvalidArgumentError("Number of coefficients needed greater than poly modulus degree")
       ELSE Ok([k \in 1..n |->
                  SumTo([b \in 1..BitsPerCoeff |->
                           StringBit(value, (k - 1) * BitsPerCoeff + b)
                              * PowersOfTwo[BitsPerCoeff - b]],
                        BitsPerCoeff)])

\* StringEncoder::decode: unpacks every whole byte the coefficients hold.
StringDecode(plain) ==
    [k \in 1..((Len(plain) * BitsPerCoeff) \div ByteBits) |->
       SumTo([b \in 1..ByteBits |->
                CoeffBit(plain, (k - 1) * ByteBits + b) * PowersOfTwo[ByteBits - b]],
             ByteBits)]

\* The one-hot selection plaintext of the test: coefficient 0 is 1.
SelectionVector == [i \in 1..CodecDegree |-> IF i = 1 THEN 1 ELSE 0]

\* Product in Z_t[x]/(x^n + 1) of a (n coefficients) and b (up to n).
NegacyclicProduct(a, b, n, t) ==
    [k \in 1..n |->
       LET pos == SumTo([i \in 1..n |->
                           IF k - i + 1 >= 1 /\ k - i + 1 <= Len(b)
                           THEN a[i] * b[k - i + 1] ELSE 0], n)
           neg == SumTo([i \in 1..n |->
                           IF k - i + 1 + n >= 1 /\ k - i + 1 + n <= Len(b)
                              /\ k - i + 1 < 1
                           THEN a[i] * b[k - i + 1 + n] ELSE 0], n)
       IN (((pos - neg) % t) + t) % t]

IsZeroPoly(plain) == \A k \in 1..Len(plain) : plain[k] = 0

\* The selection of TestEncOp: encrypt the selection plaintext, multiply the
\* ciphertext by the payload plaintext in place, decrypt.  A product by a
\* zero plaintext is a transparent ciphertext, which the Evaluator refuses
\* with a logic_error in builds with SEAL_THROW_ON_TRANSPARENT_CIPHERTEXT.
HomomorphicSelect(selection, plain, throw_on_transparent) ==
    IF IsZeroPoly(plain) /\ throw_on_transparent
    THEN Uncaught("result ciphertext is transparent")
    ELSE Ok(Significant(NegacyclicProduct(selection, plain, CodecDegree,
                                          CodecPlainModulus)))

\* ------------------------------------------------------------- state
VARIABLES
    contexts,   \* the Context each party of the session holds, if any
    heap,       \* "ok", or "low" when backend allocations may fail
    last,       \* the latest call: operation, Context, input, result, stages
    codec,      \* the codec scenario: input string, plaintext, decoded bytes
    origin      \* history: the party whose serialized parameters each
                \* party's Context was built from ("none" otherwise)

vars == <<contexts, heap, last, codec, origin>>

\* Inputs of the numeric-vector interface: in-range values, lengths from the
\* empty vector to one element more than the ring degree.
\* Each length carries four patterns: all zero, all maximal, and the two
\* alternations of zero and the maximal value.
Patterns ==
    {[i \in 1..(RingDegree + 1) |-> IF (i + a) % m = 0 THEN 0 ELSE PlainModulus - 1] :
        a \in {0, 1}, m \in {1, 2, RingDegree + 2}}
Vectors == {SubSeq(w, 1, k) : w \in Patterns, k \in 0..(RingDegree + 1)}
DbSizes == {1, 1000}
\* A session has two parties; each constructs its Context once, with a key
\* pair of its own.
Parties == {"client", "server"}
NoContext == [live |-> FALSE]
\* What a ciphertext of another key pair may decrypt to.
NoisePolys == [1..RingDegree -> {0, 1}]
\* Bytes a peer may send: not a SEAL stream, or parameters of its own.
PeerBlobs == {Junk} \cup {SealBlob("parms", p) : p \in PeerParams}

Call(op, ctx, in, res, log, src, vec) ==
    [op |-> op, ctx |-> ctx, in |-> in, res |-> res, log |-> log,
     src |-> src, vec |-> vec]

\* The allocation that fails for lack of memory during one operation.
Oom(stages) == IF heap = "low" THEN stages \cup {"none"} ELSE {"none"}

HoldsBlob ==
    /\ last.op \in {"Encrypt", "Serialize", "SerializeParams", "Receive"}
    /\ last.res.kind = "ok"

Handles == {c \in Parties : contexts[c].live}

\* Byte strings from the empty one to one byte past the codec's capacity.
Bytes == {0, 1, 255}
CodecCapacity == (CodecDegree * BitsPerCoeff) \div ByteBits
Strings == UNION {[1..k -> Bytes] : k \in 0..(CodecCapacity + 1)}

NoCall == Call("none", "none", <<>>, Ok(<<>>), <<>>, "none", <<>>)
Codec(phase, value, status, pt, out, throws) ==
    [phase |-> phase, value |-> value, status |-> status, pt |-> pt,
     out |-> out, throw_on_transparent |-> throws]
CodecIdle == Codec("idle", <<>>, Ok(<<>>), <<>>, <<>>, TRUE)

Init ==
    /\ contexts = [c \in Parties |-> NoContext]
    /\ heap = "ok"
    /\ last = NoCall
    /\ codec = CodecIdle
    /\ origin = [c \in Parties |-> "none"]

InitResource ==
    /\ contexts = [c \in Parties |-> NoContext]
    /\ heap \in {"ok", "low"}
    /\ last = NoCall
    /\ codec = CodecIdle
    /\ origin = [c \in Parties |-> "none"]

InitCodec ==
    /\ contexts = [c \in Parties |-> NoContext]
    /\ heap = "ok"
    /\ last = NoCall
    /\ origin = [c \in Parties |-> "none"]
    /\ \E value \in Strings, throws \in BOOLEAN :
          codec = Codec("input", value, Ok(<<>>), <<>>, <<>>, throws)

CallCreate(c, n) ==
    /\ ~contexts[c].live
    /\ \E oom \in Oom({"PIRContext"}) :
          LET r == Create(n, c, oom)
          IN /\ contexts' = IF r.kind = "ok" THEN [contexts EXCEPT ![c] = r.val]
                            ELSE contexts
             /\ last' = Call("Create", c, n, r, <<>>, "none", <<>>)
    /\ UNCHANGED <<heap, codec, origin>>

CallCreateFromParams(c, n) ==
    /\ ~contexts[c].live
    /\ HoldsBlob
    /\ \E oom \in Oom({"EncryptionParameters", "stream", "load", "what", "status",
                      "PIRContext"}) :
          LET r == CreateFromParams(last.res.val, n, c, oom)
          IN /\ contexts' = IF r.kind = "ok" THEN [contexts EXCEPT ![c] = r.val]
                            ELSE contexts
             /\ last' = Call("CreateFromParams", c, last.res.val, r, <<>>,
                             IF last.op = "SerializeParams" THEN last.ctx
                             ELSE "none",
                             <<>>)
             /\ origin' = IF r.kind = "ok" /\ last.op = "SerializeParams"
                          THEN [origin EXCEPT ![c] = last.ctx]
                          ELSE origin
    /\ UNCHANGED <<heap, codec>>

CallSerializeParams(c) ==
    /\ \E oom \in Oom({"save", "str"}) :
          last' = Call("SerializeParams", c, <<>>,
                       SerializeParams(contexts[c], oom), <<>>, "none", <<>>)
    /\ UNCHANGED <<contexts, heap, codec, origin>>

Receive(b) ==
    /\ last' = Call("Receive", "none", <<>>, Ok(b), <<>>, "none", <<>>)
    /\ UNCHANGED <<contexts, heap, codec, origin>>

CallEncode(c, v) ==
    /\ \E oom \in Oom({"Encode", "what"}) :
          last' = Call("Encode", c, v, Encode(contexts[c], v, oom), <<>>, c, v)
    /\ UNCHANGED <<contexts, heap, codec, origin>>

CallDecode(c) ==
    /\ last.op = "Encode" /\ last.res.kind = "ok"
    /\ \E oom \in Oom({"Decode", "what"}) :
          last' = Call("Decode", c, last.res.val,
                       Decode(contexts[c], last.res.val, oom), <<>>,
                       last.ctx, last.in)
    /\ UNCHANGED <<contexts, heap, codec, origin>>

CallEncrypt(c, v) ==
    /\ \E oom \in Oom({"Ciphertext", "Encode", "what", "status", "encrypt",
                      "Serialize", "str"}) :
          LET r == Encrypt(contexts[c], v, oom)
          IN last' = Call("Encrypt", c, v, r.res, r.log, c, v)
    /\ UNCHANGED <<contexts, heap, codec, origin>>

CallDecrypt(c) ==
    /\ HoldsBlob
    /\ \E oom \in Oom({"Ciphertext", "stream", "Deserialize", "what", "status",
                      "decrypt",
                      "Decode"}),
          noise \in NoisePolys :
          LET r == Decrypt(contexts[c], last.res.val, oom, noise)
          IN last' = Call("Decrypt", c, last.res.val, r.res, r.log,
                          last.src, last.vec)
    /\ UNCHANGED <<contexts, heap, codec, origin>>

CallDeserialize(c) ==
    /\ HoldsBlob
    /\ \E oom \in Oom({"Ciphertext", "stream", "Deserialize", "what"}) :
          last' = Call("Deserialize", c, last.res.val,
                       Deserialize(contexts[c], last.res.val, oom), <<>>,
                       last.src, last.vec)
    /\ UNCHANGED <<contexts, heap, codec, origin>>

CallSerialize(c) ==
    /\ last.op = "Deserialize" /\ last.res.kind = "ok"
    /\ \E oom \in Oom({"Serialize", "str"}) :
          last' = Call("Serialize", c, last.res.val,
                       Serialize(last.res.val, oom), <<>>, last.src, last.vec)
    /\ UNCHANGED <<contexts, heap, codec, origin>>

Next ==
    \/ \E c \in Parties, n \in DbSizes : CallCreate(c, n)
    \/ \E c \in Parties, n \in DbSizes : CallCreateFromParams(c, n)
    \/ \E b \in PeerBlobs : Receive(b)
    \/ \E c \in Handles : CallSerializeParams(c)
    \/ \E c \in Handles, v \in Vectors : CallEncode(c, v)
    \/ \E c \in Handles : CallDecode(c)
    \/ \E c \in Handles, v \in Vectors : CallEncrypt(c, v)
    \/ \E c \in Handles : CallDecrypt(c)
    \/ \E c \in Handles : CallDeserialize(c)
    \/ \E c \in Handles : CallSerialize(c)

\* encoder_->encode(value, pt)
CodecEncode ==
    /\ codec.phase = "input"
    /\ LET status == StringEncode(codec.value, CodecDegree)
       IN codec' = [codec EXCEPT
                      !.phase = IF status.kind = "ok" THEN "encoded" ELSE "rejected",
                      !.status = IF status.kind = "ok" THEN Ok(<<>>) ELSE status,
                      !.pt = IF status.kind = "ok" THEN status.val ELSE @]
    /\ UNCHANGED <<contexts, heap, last, origin>>

\* encoder_->decode(pt)
CodecDecode ==
    /\ codec.phase = "encoded"
    /\ codec' = [codec EXCEPT !.phase = "decoded", !.out = StringDecode(codec.pt)]
    /\ UNCHANGED <<contexts, heap, last, origin>>

\* encrypt(selection), multiply_plain_inplace(ct, pt), decrypt(ct, result_pt)
CodecSelect ==
    /\ codec.phase = "encoded"
    /\ LET r == HomomorphicSelect(SelectionVector, codec.pt,
                                  codec.throw_on_transparent)
       IN codec' = [codec EXCEPT
                      !.phase = IF r.kind = "ok" THEN "selected" ELSE "faulted",
                      !.status = IF r.kind = "ok" THEN Ok(<<>>) ELSE r,
                      !.pt = IF r.kind = "ok" THEN r.val ELSE @]
    /\ UNCHANGED <<contexts, heap, last, origin>>

\* encoder_->decode(result_pt)
CodecDecodeSelected ==
    /\ codec.phase = "selected"
    /\ codec' = [codec EXCEPT !.phase = "retrieved", !.out = StringDecode(codec.pt)]
    /\ UNCHANGED <<contexts, heap, last, origin>>

NextCodec ==
    \/ CodecEncode
    \/ CodecDecode
    \/ CodecSelect
    \/ CodecDecodeSelected

\* The operations of a session whose backend may run out of memory.
NextResource ==
    \/ \E c \in Parties, n \in DbSizes : CallCreate(c, n)
    \/ \E b \in PeerBlobs : Receive(b)
    \/ \E c \in Handles, v \in Vectors : CallEncrypt(c, v)
    \/ \E c \in Handles : CallDecrypt(c)

Spec == Init /\ [][Next]_vars
SpecResource == InitResource /\ [][NextResource]_vars
SpecCodec == InitCodec /\ [][NextCodec]_vars

\* ------------------------------------------------------------ claims
StartsWithThenZero(out, value) ==
    /\ Len(out) >= Len(value)
    /\ \A i \in 1..Len(value) : out[i] = value[i]
    /\ \A i \in (Len(value) + 1)..Len(out) : out[i] = 0

InRange(v) == Len(v) \in 1..RingDegree

\* C1: decoding the encoding of a string within capacity gives a byte string
\* at least as long, which starts with the string and is zero after it.
C1_RoundTrip ==
    codec.phase = "decoded" => StartsWithThenZero(codec.out, codec.value)

C1_Witness ==
    /\ codec.phase = "decoded"
    /\ Len(codec.value) >= 1
    /\ codec.value[Len(codec.value)] # 0
    /\ Len(codec.out) > Len(codec.value)

\* C2: encode succeeds exactly when the string's bits fit the ring degree's
\* coefficients (ceil(L * 8 / 19) <= degree), then with exactly
\* ceil(L * 8 / 19) coefficients; otherwise it fails with InvalidArgument and
\* packs nothing.  At degree 4096, 9728 bytes need 4096 coefficients and 9729
\* bytes need 4097.
C2_Capacity ==
    LET bits == Len(codec.value) * ByteBits
        n == Len(codec.pt)
    IN /\ codec.phase = "encoded" =>
             /\ bits <= CodecDegree * BitsPerCoeff
             /\ codec.status.kind = "ok"
             /\ n * BitsPerCoeff >= bits
             /\ (n - 1) * BitsPerCoeff < bits
       /\ codec.phase = "rejected" =>
             /\ bits > CodecDegree * BitsPerCoeff
             /\ codec.status.kind = "InvalidArgument"
             /\ codec.pt = <<>>
       /\ NumCoeff(9728) = POLY_MODULUS_DEGREE
       /\ NumCoeff(9729) = POLY_MODULUS_DEGREE + 1

C2_Witness ==
    /\ codec.phase = "rejected"
    /\ NumCoeff(Len(codec.value)) = CodecDegree + 1
    /\ NumCoeff(Len(codec.value) - 1) = CodecDegree

\* C3: the selection scenario (encode s, multiply the encrypted one-hot
\* selection by the plaintext, decrypt, decode) ends, for every string within
\* capacity, with s followed only by zero bytes.
C3_SelectionRetrieves ==
    /\ codec.phase # "faulted"
    /\ codec.phase = "retrieved" => StartsWithThenZero(codec.out, codec.value)

\* C4 as stated: Decrypt of what the same Context's Encrypt made of an
\* in-range vector v succeeds and returns v itself.
C4_DecryptReturnsInput ==
    (last.op = "Decrypt" /\ last.src = last.ctx /\ InRange(last.vec)) =>
        (last.res.kind = "ok" /\ last.res.val = last.vec)

\* C4 amended: Decrypt of what the same Context's Encrypt made of an in-range
\* vector v succeeds and returns v followed by zeros up to the ring degree.
C4_DecryptReturnsPadded ==
    (last.op = "Decrypt" /\ last.src = last.ctx /\ InRange(last.vec)) =>
        (last.res.kind = "ok" /\ last.res.val = ZeroPad(last.vec, RingDegree))

C4_Witness ==
    /\ last.op = "Decrypt" /\ last.src = last.ctx
    /\ Len(last.vec) = 1 /\ last.vec[1] # 0
    /\ last.res.kind = "ok"
    /\ Len(last.res.val) = RingDegree

\* C5 as stated: Decode of the same Context's Encode of an in-range vector v
\* succeeds and returns v itself.
C5_DecodeReturnsInput ==
    (last.op = "Decode" /\ last.src = last.ctx /\ InRange(last.vec)) =>
        (last.res.kind = "ok" /\ last.res.val = last.vec)

\* C5 amended: Decode of the same Context's Encode of an in-range vector v
\* succeeds and returns a vector of ring-degree length: v, then zeros.
C5_DecodeReturnsPadded ==
    (last.op = "Decode" /\ last.src = last.ctx /\ InRange(last.vec)) =>
        /\ last.res.kind = "ok"
        /\ Len(last.res.val) = RingDegree
        /\ StartsWithThenZero(last.res.val, last.vec)

C5_Witness ==
    /\ last.op = "Decode" /\ last.src = last.ctx
    /\ Len(last.vec) = 1 /\ last.vec[1] # 0
    /\ last.res.kind = "ok"
    /\ Len(last.res.val) > 1

\* C6: Encode fails with InvalidArgument on the empty vector and on
\* a vector longer than the ring degree, and returns a plaintext only for
\* lengths 1..ring degree.
C6_EmptyOrTooLongRejected ==
    last.op = "Encode" =>
        /\ (Len(last.in) = 0 \/ Len(last.in) > RingDegree) =>
               last.res.kind = "InvalidArgument"
        /\ last.res.kind = "ok" => InRange(last.in)

\* C7: no operation of the Context lets a backend fault escape: every call
\* returns a value or a typed InvalidArgument failure.
C7_NoFaultEscapes == last.res.kind \in {"ok", "InvalidArgument"}

\* C8: SerializeParams succeeds; CreateFromParams on its result gives a
\* Context with the same parameters and a key pair of its own, on which
\* Encode and Encrypt of in-range vectors and Decrypt of its own ciphertexts
\* succeed; CreateFromParams on bytes that are not serialized parameters
\* returns InvalidArgument and no Context.
C8_ParameterRoundTrip ==
    /\ last.op = "SerializeParams" => last.res.kind = "ok"
    /\ (last.op = "CreateFromParams" /\ last.src \in Parties) =>
           /\ last.res.kind = "ok"
           /\ contexts[last.ctx].live
           /\ contexts[last.ctx].parms = contexts[last.src].parms
           /\ contexts[last.ctx].key # contexts[last.src].key
    /\ (last.op \in {"Encode", "Encrypt"} /\ origin[last.ctx] \in Parties
          /\ InRange(last.in)) => last.res.kind = "ok"
    /\ (last.op = "Decrypt" /\ origin[last.ctx] \in Parties
          /\ last.src = last.ctx /\ InRange(last.vec)) => last.res.kind = "ok"
    /\ (last.op = "CreateFromParams"
          /\ ~(last.in.magic = "SEAL" /\ last.in.layout = "parms")) =>
           /\ last.res.kind = "InvalidArgument"
           /\ ~contexts[last.ctx].live

C8_Witness ==
    /\ last.op = "Decrypt"
    /\ origin[last.ctx] \in Parties
    /\ last.src = last.ctx
    /\ InRange(last.vec)
    /\ last.res.kind = "ok"

\* C9: Deserialize and Decrypt of a ciphertext blob that a Context with
\* different parameters produced always fail.
C9_ForeignCiphertextRejected ==
    (/\ last.op \in {"Deserialize", "Decrypt"}
     /\ last.src \in Parties
     /\ contexts[last.src].parms # contexts[last.ctx].parms) =>
        last.res.kind # "ok"

StageOrder(op) ==
    IF op = "Encrypt" THEN <<"Encode", "encrypt", "Serialize">>
    ELSE <<"Deserialize", "decrypt", "Decode">>

\* C10: Encrypt runs Encode, encrypt, Serialize and Decrypt runs Deserialize,
\* decrypt, Decode, each at most once and in this order; a stage runs only
\* after every stage before it succeeded, the operation stops at the first
\* stage that fails, and what the operation returns is the result of the last
\* stage it ran: the error, kind and message, of the first failing stage, or
\* the value of the third stage.
C10_ShortCircuit ==
    last.op \in {"Encrypt", "Decrypt"} =>
        LET n == Len(last.log)
        IN /\ n <= 3
           /\ \A i \in 1..n : last.log[i].stage = StageOrder(last.op)[i]
           /\ \A i \in 1..(n - 1) : last.log[i].res.kind = "ok"
           /\ (n > 0 /\ last.log[n].res.kind = "ok") => n = 3
           /\ last.res.kind # "uncaught" =>
                  /\ n > 0
                  /\ last.res = last.log[n].res

\* Encrypt of a vector longer than the ring degree: Encode fails, no other
\* stage runs, and Encrypt returns Encode's error.
C10_Witness ==
    /\ last.op = "Encrypt"
    /\ Len(last.in) > RingDegree
    /\ Len(last.log) = 1
    /\ last.log[1].stage = "Encode"
    /\ last.res = InvalidArgumentError("values_matrix size is too large")

====
